---------------------------- MODULE Spec2Model ----------------------------
(***************************************************************************)
(* A model of collector/systemd_linux.go: the systemd collector of          *)
(* node_exporter.  One Update call opens a D-Bus connection, lists the      *)
(* units, closes the connection, sends five samples per unit to the metric  *)
(* channel, opens a second connection, reads the SystemState property,      *)
(* closes it and sends the system_running sample.                           *)
(*                                                                          *)
(* The service manager (dbus.New, ListUnits, GetManagerProperty) and the    *)
(* receiver of the channel are the environment: their answers are drawn     *)
(* from small sets, and the receiver may stop receiving at any moment.      *)
(* Update is cut at its blocking calls, so that what is open, and what has  *)
(* been sent, is visible between them.                                      *)
(***************************************************************************)
EXTENDS Integers, Sequences, FiniteSets

VARIABLES
    pc,             \* where the running Update call is
    conns,          \* the D-Bus connections that are open (their ids)
    opened,         \* how many connections this call has opened
    units,          \* Update's local `units`
    systemState,    \* Update's local `systemState`
    qerr,           \* the local `err` of listUnits / getSystemState
    i, j,           \* the loop positions of collectUnitStatusMetrics
    ch,             \* the samples the channel has accepted in this call
    err,            \* what Update returned: <<>> is nil, else the message parts
    log,            \* the service-manager calls of this call, with their answers
    sinkAccepting,  \* the receiver of ch is still receiving
    prev            \* how the call before this one ended

vars == <<pc, conns, opened, units, systemState, qerr, i, j, ch, err, log,
          sinkAccepting, prev>>

---------------------------------------------------------------------------
(* Bounds and the environment's answers *)

MaxUnits == 2

UnitNames == {"sshd.service", "cron.service", "dbus.socket"}

\* systemd's ActiveState values: the five the collector knows and one it does not
ActiveStates == {"active", "activating", "deactivating", "inactive", "failed",
                 "reloading"}

\* what GetManagerProperty("SystemState") may answer: the property comes back
\* in its D-Bus text form, quotes included
SystemStates == {"\"running\"", "running", "\"degraded\""}

DbusErrors == {"dial unix /run/systemd/private: connect: no such file or directory",
               "Access denied"}

UnitStatus == [Name : UnitNames, ActiveState : ActiveStates]

\* ListUnits answers one entry per loaded unit: the names are distinct
UnitLists ==
    { us \in UNION { [1..n -> UnitStatus] : n \in 0..MaxUnits } :
        \A a, b \in 1..Len(us) : us[a].Name = us[b].Name => a = b }

nil == <<>>

---------------------------------------------------------------------------
(* The collector *)

unitStatesName == <<"active", "activating", "deactivating", "inactive", "failed">>

\* prometheus.BuildFQName(Namespace, "systemd", "unit_state"), without the namespace
unitDesc == "systemd_unit_state"

systemRunningDesc == "systemd_system_running"

\* prometheus.MustNewConstMetric(desc, GaugeValue, value, labelValues...)
MustNewConstMetric(desc, value, name, state) ==
    [desc |-> desc, value |-> value, name |-> name, state |-> state]

\* fmt.Errorf("<prefix>: %s", e)
Errorf(prefix, e) == <<prefix>> \o e

\* an error of the dbus package
DbusError(m) == <<m>>

LogEntry(op, conn, e, us, value) ==
    [op |-> op, conn |-> conn, err |-> e, units |-> us, value |-> value]

Outcome(e) ==
    IF e = nil THEN "ok"
    ELSE IF e[1] = "couldn't get units states" THEN "units"
    ELSE "system"

Init ==
    /\ pc = "idle"
    /\ conns = {}
    /\ opened = 0
    /\ units = <<>>
    /\ systemState = ""
    /\ qerr = nil
    /\ i = 1
    /\ j = 1
    /\ ch = <<>>
    /\ err = nil
    /\ log = <<>>
    /\ sinkAccepting = TRUE
    /\ prev = "first"

\* a slip: the collector keeps the error of a failed call and answers the next
\* call with it, without asking the service manager again
UpdateCall_stickyError ==
    /\ pc \in {"idle", "returned"}
    /\ pc' = IF pc = "returned" /\ err # nil THEN "returned" ELSE "listUnits_New"
    /\ prev' = IF pc = "idle" THEN "first" ELSE Outcome(err)
    /\ conns' = {}
    /\ opened' = 0
    /\ units' = <<>>
    /\ systemState' = ""
    /\ qerr' = nil
    /\ i' = 1
    /\ j' = 1
    /\ ch' = <<>>
    /\ err' = IF pc = "returned" /\ err # nil THEN err ELSE nil
    /\ log' = <<>>
    /\ sinkAccepting' = TRUE

\* The framework calls Update(ch) with the channel of this scrape.
UpdateCall ==
    /\ pc \in {"idle", "returned"}
    /\ pc' = "listUnits_New"
    /\ prev' = IF pc = "idle" THEN "first" ELSE Outcome(err)
    /\ conns' = {}
    /\ opened' = 0
    /\ units' = <<>>
    /\ systemState' = ""
    /\ qerr' = nil
    /\ i' = 1
    /\ j' = 1
    /\ ch' = <<>>
    /\ err' = nil
    /\ log' = <<>>
    /\ sinkAccepting' = TRUE

(* listUnits *)

\* conn, err := dbus.New(); a failure returns from listUnits and from Update
listUnits_New ==
    /\ pc = "listUnits_New"
    /\ \/ /\ conns' = conns \cup {opened + 1}
          /\ opened' = opened + 1
          /\ log' = Append(log, LogEntry("New", opened + 1, nil, <<>>, ""))
          /\ pc' = "listUnits_ListUnits"
          /\ UNCHANGED err
       \/ \E m \in DbusErrors :
          /\ log' = Append(log, LogEntry("New", 0, DbusError(m), <<>>, ""))
          /\ err' = Errorf("couldn't get units states",
                           Errorf("couldn't get dbus connection", DbusError(m)))
          /\ pc' = "returned"
          /\ UNCHANGED <<conns, opened>>
    /\ UNCHANGED <<units, systemState, qerr, i, j, ch, sinkAccepting, prev>>

\* units, err := conn.ListUnits()
listUnits_ListUnits ==
    /\ pc = "listUnits_ListUnits"
    /\ \/ \E us \in UnitLists :
          /\ units' = us
          /\ qerr' = nil
          /\ log' = Append(log, LogEntry("ListUnits", opened, nil, us, ""))
       \/ \E m \in DbusErrors :
          /\ units' = <<>>
          /\ qerr' = DbusError(m)
          /\ log' = Append(log, LogEntry("ListUnits", opened, DbusError(m), <<>>, ""))
    /\ pc' = "listUnits_Close"
    /\ UNCHANGED <<conns, opened, systemState, i, j, ch, err, sinkAccepting, prev>>

\* a slip: the Close forgotten
ConnClose_never == conns' = conns

\* a slip: the connection closed only when the query succeeded
ConnClose_onSuccessOnly == conns' = IF qerr = nil THEN conns \ {opened} ELSE conns

\* conn.Close()
ConnClose == conns' = conns \ {opened}

\* the loop of collectUnitStatusMetrics is over when it has no unit left
LoopDone(us, ui) == ui > Len(us)

\* a slip: the return after a failed listing forgotten
UpdateAfterListUnits_noReturn ==
    /\ err' = err
    /\ pc' = IF LoopDone(units, 1) THEN "getSystemState_New"
             ELSE "collectUnitStatusMetrics"

\* Update, once listUnits has returned: return on an error, else enter
\* collectUnitStatusMetrics
UpdateAfterListUnits ==
    IF qerr # nil
    THEN /\ err' = Errorf("couldn't get units states", qerr)
         /\ pc' = "returned"
    ELSE /\ err' = err
         /\ pc' = IF LoopDone(units, 1) THEN "getSystemState_New"
                  ELSE "collectUnitStatusMetrics"

\* conn.Close(); return units, err
listUnits_Close ==
    /\ pc = "listUnits_Close"
    /\ ConnClose
    /\ UpdateAfterListUnits
    /\ i' = 1
    /\ j' = 1
    /\ UNCHANGED <<opened, units, systemState, qerr, ch, log, sinkAccepting, prev>>

(* collectUnitStatusMetrics *)

\* a slip: the comparison inverted
IsActive_inverted(stateName, activeState) == IF stateName # activeState THEN 1 ELSE 0

\* a slip: a state the collector does not know is published as "failed"
IsActive_unknownAsFailed(stateName, activeState) ==
    IF \/ stateName = activeState
       \/ /\ stateName = "failed"
          /\ \A k \in DOMAIN unitStatesName : unitStatesName[k] # activeState
    THEN 1 ELSE 0

\* isActive := 0.0; if stateName == unit.ActiveState { isActive = 1.0 }
IsActive(stateName, activeState) == IF stateName = activeState THEN 1 ELSE 0

\* a slip: the state names walked in no fixed order (here: backwards)
LoopSample_statesReversed(us, ui, si) ==
    LET sn == unitStatesName[Len(unitStatesName) + 1 - si]
    IN  MustNewConstMetric(unitDesc, IsActive(sn, us[ui].ActiveState),
                           us[ui].Name, sn)

\* the sample of the loop body, for unit us[ui] and state name number si
LoopSample(us, ui, si) ==
    MustNewConstMetric(unitDesc,
                       IsActive(unitStatesName[si], us[ui].ActiveState),
                       us[ui].Name, unitStatesName[si])

\* ch <- sample: one pass of the inner loop; the send blocks until the
\* receiver takes the sample
collectUnitStatusMetrics ==
    /\ pc = "collectUnitStatusMetrics"
    /\ sinkAccepting
    /\ ch' = Append(ch, LoopSample(units, i, j))
    /\ IF j < Len(unitStatesName)
       THEN /\ j' = j + 1
            /\ i' = i
            /\ pc' = pc
       ELSE /\ j' = 1
            /\ i' = i + 1
            /\ pc' = IF LoopDone(units, i + 1) THEN "getSystemState_New" ELSE pc
    /\ UNCHANGED <<conns, opened, units, systemState, qerr, err, log,
                   sinkAccepting, prev>>

(* getSystemState *)

getSystemState_New ==
    /\ pc = "getSystemState_New"
    /\ \/ /\ conns' = conns \cup {opened + 1}
          /\ opened' = opened + 1
          /\ log' = Append(log, LogEntry("New", opened + 1, nil, <<>>, ""))
          /\ pc' = "getSystemState_GetManagerProperty"
          /\ UNCHANGED err
       \/ \E m \in DbusErrors :
          /\ log' = Append(log, LogEntry("New", 0, DbusError(m), <<>>, ""))
          /\ err' = Errorf("couldn't get system state",
                           Errorf("couldn't get dbus connection", DbusError(m)))
          /\ pc' = "returned"
          /\ UNCHANGED <<conns, opened>>
    /\ UNCHANGED <<units, systemState, qerr, i, j, ch, sinkAccepting, prev>>

\* state, err = conn.GetManagerProperty("SystemState")
getSystemState_GetManagerProperty ==
    /\ pc = "getSystemState_GetManagerProperty"
    /\ \/ \E s \in SystemStates :
          /\ systemState' = s
          /\ qerr' = nil
          /\ log' = Append(log, LogEntry("GetManagerProperty:SystemState",
                                         opened, nil, <<>>, s))
       \/ \E m \in DbusErrors :
          /\ systemState' = ""
          /\ qerr' = DbusError(m)
          /\ log' = Append(log, LogEntry("GetManagerProperty:SystemState",
                                         opened, DbusError(m), <<>>, ""))
    /\ pc' = "getSystemState_Close"
    /\ UNCHANGED <<conns, opened, units, i, j, ch, err, sinkAccepting, prev>>

\* a slip: the return after a failed read forgotten
UpdateAfterGetSystemState_noReturn ==
    /\ err' = err
    /\ pc' = "collectSystemState"

\* a slip: a failed read tried a second time
UpdateAfterGetSystemState_retryOnce ==
    IF qerr # nil /\ opened < 3
    THEN /\ err' = err
         /\ pc' = "getSystemState_New"
    ELSE IF qerr # nil
    THEN /\ err' = Errorf("couldn't get system state", qerr)
         /\ pc' = "returned"
    ELSE /\ err' = err
         /\ pc' = "collectSystemState"

\* Update, once getSystemState has returned: return on an error, else enter
\* collectSystemState
UpdateAfterGetSystemState ==
    IF qerr # nil
    THEN /\ err' = Errorf("couldn't get system state", qerr)
         /\ pc' = "returned"
    ELSE /\ err' = err
         /\ pc' = "collectSystemState"

\* conn.Close(); return state, err
getSystemState_Close ==
    /\ pc = "getSystemState_Close"
    /\ ConnClose
    /\ UpdateAfterGetSystemState
    /\ UNCHANGED <<opened, units, systemState, qerr, i, j, ch, log,
                   sinkAccepting, prev>>

(* collectSystemState *)

\* a slip: the property compared without its quotes
IsSystemRunning_unquoted(state) == IF state = "running" THEN 1 ELSE 0

\* isSystemRunning := 0.0; if systemState == `"running"` { isSystemRunning = 1.0 }
IsSystemRunning(state) == IF state = "\"running\"" THEN 1 ELSE 0

\* ch <- sample; return nil
collectSystemState ==
    /\ pc = "collectSystemState"
    /\ sinkAccepting
    /\ ch' = Append(ch, MustNewConstMetric(systemRunningDesc,
                                           IsSystemRunning(systemState), "", ""))
    /\ err' = nil
    /\ pc' = "returned"
    /\ UNCHANGED <<conns, opened, units, systemState, qerr, i, j, log,
                   sinkAccepting, prev>>

(* The receiver of the channel stops receiving while Update runs. *)
SinkStop ==
    /\ pc \notin {"idle", "returned"}
    /\ sinkAccepting
    /\ sinkAccepting' = FALSE
    /\ UNCHANGED <<pc, conns, opened, units, systemState, qerr, i, j, ch, err,
                   log, prev>>

Next ==
    \/ UpdateCall
    \/ listUnits_New
    \/ listUnits_ListUnits
    \/ listUnits_Close
    \/ collectUnitStatusMetrics
    \/ getSystemState_New
    \/ getSystemState_GetManagerProperty
    \/ getSystemState_Close
    \/ collectSystemState
    \/ SinkStop

Spec == Init /\ [][Next]_vars

---------------------------------------------------------------------------
(* What the claims speak of, read from the service manager's answers (log)
   and from the channel (ch), never from Update's own variables *)

KnownStates == {"active", "activating", "deactivating", "inactive", "failed"}

\* the unit-listing stage succeeded: its connection opened and ListUnits answered
ListOk ==
    /\ Len(log) >= 2
    /\ log[2].op = "ListUnits"
    /\ log[2].err = nil

\* the unit-listing stage failed: dbus.New or ListUnits answered with an error
ListFailed ==
    \/ Len(log) >= 1 /\ log[1].err # nil
    \/ Len(log) >= 2 /\ log[2].op = "ListUnits" /\ log[2].err # nil

\* the list ListUnits answered with
Listed == IF ListOk THEN log[2].units ELSE <<>>

\* the system-state stage failed: its dbus.New or GetManagerProperty answered
\* with an error
SysFailed == ListOk /\ Len(log) >= 3 /\ log[Len(log)].err # nil

\* both queries answered without an error
SysOk ==
    /\ ListOk
    /\ Len(log) = 4
    /\ log[4].op = "GetManagerProperty:SystemState"
    /\ log[4].err = nil

\* collectUnitStatusMetrics has run to its end
UnitsSent ==
    /\ ListOk
    /\ pc \in {"getSystemState_New", "getSystemState_GetManagerProperty",
               "getSystemState_Close", "collectSystemState", "returned"}

IsUnitSample(s) == s.desc = "systemd_unit_state"

IsSystemSample(s) == s.desc = "systemd_system_running"

\* the unit-state samples on the channel that carry the name n
SamplesOf(n) == SelectSeq(ch, LAMBDA s : IsUnitSample(s) /\ s.name = n)

HasOp(op) == \E k \in 1..Len(log) : log[k].op = op

---------------------------------------------------------------------------
(* C1: for every listed unit whose ActiveState is one of the five known
   states, Update sends exactly five unit-state samples, one per known state
   name; the one labelled with the unit's ActiveState has value 1, the other
   four have value 0. *)
C1_OneHotKnown ==
    UnitsSent =>
        \A u \in 1..Len(Listed) :
            LET unit == Listed[u]
                S == SamplesOf(unit.Name)
            IN  unit.ActiveState \in KnownStates =>
                    /\ Len(S) = 5
                    /\ {S[k].state : k \in 1..Len(S)} = KnownStates
                    /\ \A k \in 1..Len(S) :
                          S[k].value = IF S[k].state = unit.ActiveState THEN 1 ELSE 0
                    /\ Cardinality({k \in 1..Len(S) : S[k].value = 1}) = 1

C1_Witness ==
    /\ pc = "returned"
    /\ err = nil
    /\ Len(Listed) = 2
    /\ Listed[1].ActiveState = "active"
    /\ Listed[2].ActiveState = "failed"
    /\ Len(ch) = 11

(* C2: for every listed unit whose ActiveState is none of the five known
   states, Update still sends exactly five unit-state samples, all of value 0;
   the unknown state makes no error of the listing stage and gets no sample
   of its own. *)
C2_UnknownAllZero ==
    UnitsSent =>
        /\ \A u \in 1..Len(Listed) :
              LET unit == Listed[u]
                  S == SamplesOf(unit.Name)
              IN  unit.ActiveState \notin KnownStates =>
                      /\ Len(S) = 5
                      /\ {S[k].state : k \in 1..Len(S)} = KnownStates
                      /\ \A k \in 1..Len(S) : S[k].value = 0
        /\ \A k \in 1..Len(ch) : IsUnitSample(ch[k]) => ch[k].state \in KnownStates
        /\ (pc = "returned" /\ err # nil) => err[1] # "couldn't get units states"

C2_Witness ==
    /\ pc = "returned"
    /\ err = nil
    /\ Len(Listed) = 2
    /\ Listed[1].ActiveState = "reloading"
    /\ Listed[2].ActiveState = "active"
    /\ Len(ch) = 11

(* C3: when both queries succeed, the system-running sample has value 1
   exactly when GetManagerProperty answered the quoted "running" (quotes
   included); any other answer, the unquoted running too, gives 0. *)
C3_SystemRunning ==
    (SysOk /\ pc = "returned") =>
        /\ Len(ch) >= 1
        /\ IsSystemSample(ch[Len(ch)])
        /\ Len(SelectSeq(ch, IsSystemSample)) = 1
        /\ ch[Len(ch)].value \in {0, 1}
        /\ ch[Len(ch)].value = 1 <=> log[4].value = "\"running\""

C3_Witness ==
    /\ SysOk
    /\ pc = "returned"
    /\ log[4].value = "running"
    /\ ch[Len(ch)].value = 0

(* C4: if the unit-listing stage fails (dbus.New or ListUnits answers with an
   error), nothing of either family is sent, the system-state stage is never
   attempted, and Update returns the units-stage error. *)
C4_ListFailure ==
    ListFailed =>
        /\ ch = <<>>
        /\ Len(log) <= 2
        /\ ~HasOp("GetManagerProperty:SystemState")
        /\ opened <= 1
        /\ pc \in {"listUnits_Close", "returned"}
        /\ pc = "returned" =>
              /\ Len(err) >= 1
              /\ err[1] = "couldn't get units states"

C4_Witness ==
    /\ pc = "returned"
    /\ Len(log) = 2
    /\ log[2].err # nil
    /\ Len(err) = 2

(* C5: if unit listing succeeds with N units and the system-state stage fails
   (its dbus.New or GetManagerProperty answers with an error), the channel
   holds exactly the 5*N unit-state samples and no system-running sample, and
   Update returns the system-state-stage error. *)
C5_SystemStateFailure ==
    SysFailed =>
        /\ Len(ch) = 5 * Len(Listed)
        /\ \A k \in 1..Len(ch) : IsUnitSample(ch[k])
        /\ pc \in {"getSystemState_Close", "returned"}
        /\ pc = "returned" =>
              /\ Len(err) >= 1
              /\ err[1] = "couldn't get system state"

C5_Witness ==
    /\ pc = "returned"
    /\ SysFailed
    /\ Len(log) = 4
    /\ Len(Listed) = 2
    /\ Len(ch) = 10

(* C6: a connection is open only from its dbus.New to the Close that follows
   its one query, whether the query succeeded or failed: at most one is open
   at a time, the list-units connection is closed before the system-state one
   is opened, and none is open when Update has returned. *)
C6_ConnectionsScoped ==
    /\ Cardinality(conns) <= 1
    /\ conns # {} =>
          /\ conns = {opened}
          /\ pc \in {"listUnits_ListUnits", "listUnits_Close",
                     "getSystemState_GetManagerProperty", "getSystemState_Close"}
          /\ (\E k \in 1..Len(log) : log[k].op # "New" /\ log[k].conn \in conns)
                => pc \in {"listUnits_Close", "getSystemState_Close"}
    /\ \A c \in 1..opened :
          Cardinality({k \in 1..Len(log) : log[k].op # "New" /\ log[k].conn = c}) <= 1
    /\ pc \in {"getSystemState_New", "returned"} => conns = {}

C6_Witness ==
    /\ pc = "returned"
    /\ opened = 2
    /\ Len(log) = 4
    /\ log[4].err # nil
    /\ conns = {}

\* the queries of this call, in the order they were issued
Queries == SelectSeq(log, LAMBDA e : e.op # "New")

(* C7, as claimed: every Update call issues exactly two queries, ListUnits
   and then GetManagerProperty("SystemState"), each on its own connection. *)
C7_ExactlyTwoQueries ==
    pc = "returned" =>
        /\ Len(Queries) = 2
        /\ Queries[1].op = "ListUnits"
        /\ Queries[2].op = "GetManagerProperty:SystemState"
        /\ Queries[1].conn # Queries[2].conn

(* C7, amended: an Update call issues at most two queries, ListUnits first and
   GetManagerProperty("SystemState") second, each on its own connection; it
   issues none when the first connection does not open, only ListUnits when
   ListUnits fails or the second connection does not open, and both otherwise
   (so whenever it returns nil). *)
C7_AtMostTwoQueries ==
    /\ Len(Queries) <= 2
    /\ Len(Queries) >= 1 => Queries[1].op = "ListUnits"
    /\ Len(Queries) = 2 =>
          /\ Queries[2].op = "GetManagerProperty:SystemState"
          /\ Queries[1].conn # Queries[2].conn
    /\ \A k \in 1..Len(Queries) : Queries[k].conn \in 1..opened
    /\ (pc = "returned" /\ Len(log) >= 1) =>
          Len(Queries) = IF log[1].err # nil THEN 0
                         ELSE IF ListOk /\ Len(log) >= 3 /\ log[3].err = nil THEN 2
                         ELSE 1
    /\ (pc = "returned" /\ err = nil) => Len(Queries) = 2

C7_Witness ==
    /\ pc = "returned"
    /\ err = nil
    /\ Len(Queries) = 2
    /\ Queries[1].conn = 1
    /\ Queries[2].conn = 2

StateOrder == <<"active", "activating", "deactivating", "inactive", "failed">>

(* C8: the samples of one call reach the channel in a fixed order: the units
   in the order ListUnits answered them, the five samples of a unit together
   and in the order active, activating, deactivating, inactive, failed, and
   the system-running sample after every unit-state sample. *)
C8_EmissionOrder ==
    /\ ch # <<>> => ListOk
    /\ Len(ch) <= 5 * Len(Listed) + 1
    /\ \A k \in 1..Len(ch) :
          IF k <= 5 * Len(Listed)
          THEN /\ IsUnitSample(ch[k])
               /\ ch[k].name = Listed[((k - 1) \div 5) + 1].Name
               /\ ch[k].state = StateOrder[((k - 1) % 5) + 1]
          ELSE IsSystemSample(ch[k])

C8_Witness ==
    /\ pc = "returned"
    /\ Len(ch) = 11
    /\ Len(Listed) = 2
    /\ Listed[1].Name = "sshd.service"
    /\ Listed[2].Name = "cron.service"
    /\ ch[5].name = "sshd.service" /\ ch[5].state = "failed"
    /\ ch[6].name = "cron.service" /\ ch[6].state = "active"
    /\ IsSystemSample(ch[11])

\* what a call must send, given the answers it received and nothing else
RECURSIVE ExpectedUnitSamples(_)
ExpectedUnitSamples(us) ==
    IF us = <<>> THEN <<>>
    ELSE [k \in 1..5 |->
             [desc |-> "systemd_unit_state",
              value |-> IF StateOrder[k] = Head(us).ActiveState THEN 1 ELSE 0,
              name |-> Head(us).Name,
              state |-> StateOrder[k]]]
         \o ExpectedUnitSamples(Tail(us))

ExpectedCh ==
    IF ~ListOk THEN <<>>
    ELSE ExpectedUnitSamples(Listed)
         \o (IF SysOk
             THEN << [desc |-> "systemd_system_running",
                      value |-> IF log[4].value = "\"running\"" THEN 1 ELSE 0,
                      name |-> "", state |-> ""] >>
             ELSE <<>>)

\* what a call must return, given the answers it received and nothing else
ExpectedErr ==
    IF Len(log) >= 1 /\ log[1].err # nil
    THEN <<"couldn't get units states", "couldn't get dbus connection">> \o log[1].err
    ELSE IF Len(log) >= 2 /\ log[2].err # nil
    THEN <<"couldn't get units states">> \o log[2].err
    ELSE IF Len(log) >= 3 /\ log[3].err # nil
    THEN <<"couldn't get system state", "couldn't get dbus connection">> \o log[3].err
    ELSE IF Len(log) >= 4 /\ log[4].err # nil
    THEN <<"couldn't get system state">> \o log[4].err
    ELSE nil

CountOp(op) == Cardinality({k \in 1..Len(log) : log[k].op = op})

(* C9: a call keeps nothing of the calls before it and retries nothing: what
   it sends and returns is a function of the answers the service manager gave
   during this call, however the call before ended; each stage is attempted
   at most once, and every call, also one after a failed call, begins by
   attempting the unit listing. *)
C9_Stateless ==
    /\ pc = "returned" =>
          /\ Len(log) >= 1
          /\ ch = ExpectedCh
          /\ err = ExpectedErr
    /\ pc \notin {"idle", "listUnits_New"} =>
          /\ Len(log) >= 1
          /\ log[1].op = "New"
    /\ CountOp("ListUnits") <= 1
    /\ CountOp("GetManagerProperty:SystemState") <= 1
    /\ CountOp("New") <= 2

C9_Witness ==
    /\ pc = "returned"
    /\ prev = "units"
    /\ err = nil
    /\ Len(ch) = 6

SendPcs == {"collectUnitStatusMetrics", "collectSystemState"}

(* C10, as claimed: no connection is open while Update sends or waits to
   send; the system-state stage starts only once all 5*N unit-state samples
   are accepted; and a receiver that has stopped accepting keeps the
   system-state query from being issued. *)
C10_StoppedSinkNoQuery ==
    [][ /\ pc' \in SendPcs => conns' = {}
        /\ Len(log') >= 3 => ListOk' /\ Len(ch') >= 5 * Len(Listed')
        /\ ~sinkAccepting =>
              ~(pc = "getSystemState_GetManagerProperty" /\ pc' = "getSystemState_Close")
      ]_vars

(* C10, amended: no connection is open while Update sends or waits to send;
   the system-state stage starts only once all 5*N unit-state samples are
   accepted; so a receiver that stops accepting while a unit-state sample is
   still unsent keeps the system-state query from being issued, and Update
   waits with no connection open. *)
C10_SendsWithoutConnection ==
    /\ pc \in SendPcs => conns = {}
    /\ Len(log) >= 3 => ListOk /\ Len(ch) >= 5 * Len(Listed)
    /\ (~sinkAccepting /\ ListOk /\ Len(ch) < 5 * Len(Listed)) =>
          /\ Len(log) = 2
          /\ opened = 1
          /\ ~HasOp("GetManagerProperty:SystemState")
          /\ pc \in {"listUnits_Close", "collectUnitStatusMetrics"}
          /\ pc = "collectUnitStatusMetrics" => conns = {}

C10_Witness ==
    /\ ~sinkAccepting
    /\ pc = "collectUnitStatusMetrics"
    /\ Len(Listed) = 2
    /\ Len(ch) = 7
    /\ conns = {}

====
